---- MODULE Spec2Model ----
(***************************************************************************)
(* Model of src/main.py: the cached gateway in front of one upstream JSON  *)
(* document.  The module-level cache state (last_fetch_time, cached_data,  *)
(* cache_hits, cache_misses) is shared by the request threads of the Flask *)
(* server; fetch_from_github takes no lock, so its statements interleave.  *)
(* Each statement that reads or writes a global is one step of a thread.   *)
(***************************************************************************)
EXTENDS Integers, FiniteSets, Sequences, TLC

\* ---------------------------------------------------------------- bounds
\* Request threads served at the same time.
Threads == {1, 2}
\* Requests accepted over a whole run.
MaxCalls == 3
\* Advances of the wall clock over a whole run.
MaxTicks == 1
\* time.time() at process start, in seconds (any value above CACHE_DURATION;
\* the clock counts whole seconds, on which int() of line 136 is exact).
StartTime == 1000
\* Amounts by which the clock advances between two steps.
TickSteps == {1, 600}
\* Longest text, in characters, of the sampled arguments of custom_encode.
MaxChars == 5

\* ------------------------------------------------------- program constants
CACHE_DURATION == 600

\* ------------------------------------------------------------ JSON values
\* What response.json() can return, as far as the code looks at it: the kind,
\* the number of members (truthiness), whether the three fields of a match
\* document are present, and a version that tells two documents apart.
None == [kind |-> "null", size |-> 0, shaped |-> FALSE, ver |-> 0]
EmptyObj == [kind |-> "object", size |-> 0, shaped |-> FALSE, ver |-> 0]
List1 == [kind |-> "array", size |-> 1, shaped |-> FALSE, ver |-> 0]
Doc(v) == [kind |-> "object", size |-> 3, shaped |-> TRUE, ver |-> v]
MatchDocs == {Doc(1), Doc(2)}
JsonValues == {None, EmptyObj, List1} \cup MatchDocs

\* bool(x) of Python: None and empty containers are false.
Truthy(d) == d.kind # "null" /\ d.size > 0
\* x.get(...) exists on dict only; on None or list it raises AttributeError.
HasGet(d) == d.kind = "object"

\* Outcomes of requests.get + raise_for_status + response.json(): a
\* RequestException (connection error, timeout, non-2xx), a 2xx whose body
\* is not JSON, or a 2xx whose body parses to a JSON value.
\* Class raised by response.json() on a non-JSON body: a RequestException in
\* requests >= 2.27, a plain ValueError before; the source pins no version.
BadJsonRaises == {"RequestException", "ValueError"}

Routes == {"health", "matches", "encoded"}
NoAnswer == [status |-> 0, ok |-> FALSE, age |-> 0, payload |-> None, error |-> ""]
NoResp == [r \in Routes |-> NoAnswer]

VARIABLES
  now,              \* time.time(), whole seconds
  ticks,            \* clock advances so far (bounds the run)
  last_fetch_time,  \* main.py:20
  cached_data,      \* main.py:21
  cache_hits,       \* main.py:22
  cache_misses,     \* main.py:23
  pc,               \* per thread: the statement it is about to execute
  current_time,     \* per thread: local of fetch_from_github (line 56)
  data,             \* per thread: local of fetch_from_github (line 71)
  tmp,              \* per thread: the value loaded by a `+= 1`
  ret,              \* per thread: value returned by fetch_from_github
  exc,              \* per thread: exception in flight ("" when none)
  resp,             \* per thread: the HTTP response, for each route the
                    \* request may have been for
  calls,            \* requests accepted so far
  callno,           \* per thread: ordinal of the request it serves
  solo,             \* per thread: no other request overlapped this one so far
  path,             \* per thread: branch taken ("hit", "miss") and its outcome
  gets,             \* per thread: upstream GETs issued by this request
  pre,              \* per thread: the cache state when the request began,
                    \* kept for as long as the request runs alone
  waited,           \* per thread: seconds that passed while its GET was
                    \* in flight
  found,            \* per thread: the payload its line 59 found usable
  lft_by,           \* ordinal of the request that wrote last_fetch_time
  data_by,          \* ordinal of the request that wrote cached_data
  input_string,     \* custom_encode: its argument, a sequence of code points
  output,           \* custom_encode: the string it returned
  enc_pc            \* custom_encode: "idle", "call" or "return"

vars == <<now, ticks, last_fetch_time, cached_data, cache_hits, cache_misses,
          pc, current_time, data, tmp, ret, exc, resp,
          calls, callno, solo, path, gets, pre, waited, found, lft_by, data_by,
          input_string, output, enc_pc>>

globals == <<last_fetch_time, cached_data, cache_hits, cache_misses>>
locals == <<current_time, data, tmp, ret, exc, resp>>
ghosts == <<calls, callno, solo, path, gets, pre, waited, found, lft_by,
            data_by>>
encoder == <<input_string, output, enc_pc>>

Snapshot == [lft |-> last_fetch_time, data |-> cached_data,
             hits |-> cache_hits, misses |-> cache_misses]
NoSnapshot == [lft |-> 0, data |-> None, hits |-> 0, misses |-> 0]

\* The module-level state of lines 20-23 and idle request threads.
CacheInit ==
  /\ now = StartTime
  /\ ticks = 0
  /\ last_fetch_time = 0
  /\ cached_data = None
  /\ cache_hits = 0
  /\ cache_misses = 0
  /\ pc = [t \in Threads |-> "idle"]
  /\ current_time = [t \in Threads |-> 0]
  /\ data = [t \in Threads |-> None]
  /\ tmp = [t \in Threads |-> 0]
  /\ ret = [t \in Threads |-> None]
  /\ exc = [t \in Threads |-> ""]
  /\ resp = [t \in Threads |-> NoResp]
  /\ calls = 0
  /\ callno = [t \in Threads |-> 0]
  /\ solo = [t \in Threads |-> FALSE]
  /\ path = [t \in Threads |-> ""]
  /\ gets = [t \in Threads |-> 0]
  /\ pre = [t \in Threads |-> NoSnapshot]
  /\ waited = [t \in Threads |-> 0]
  /\ found = [t \in Threads |-> None]
  /\ lft_by = 0
  /\ data_by = 0

Init ==
  /\ CacheInit
  /\ input_string = <<>>
  /\ output = <<>>
  /\ enc_pc = "idle"

\* The clock advances between any two steps of any thread.
Tick ==
  /\ ticks < MaxTicks
  /\ \E d \in TickSteps :
       /\ now' = now + d
       /\ waited' = [t \in Threads |->
                      IF pc[t] = "wait" THEN waited[t] + d ELSE waited[t]]
  /\ ticks' = ticks + 1
  /\ UNCHANGED <<encoder, globals, pc, locals, calls, callno, solo, path,
                 gets, pre, found, lft_by, data_by>>

\* ------------------------------------------------- conditions of the code
\* Faulty variants of the conditions below, each a plausible slip in the
\* line it stands for; the properties further down must tell them apart.
CacheUsable_unchecked(d) == TRUE
IsFresh_milliseconds(ct, lft) == (ct - lft) * 1000 < CACHE_DURATION
StoredTime_after_fetch(t) == now

\* line 59 / line 81: `if cached_data` is the truth value of the object.
CacheUsable(d) == Truthy(d)
\* line 59: (current_time - last_fetch_time) < CACHE_DURATION
IsFresh(ct, lft) == (ct - lft) < CACHE_DURATION
\* line 72: the timestamp stored is the one sampled at line 56.
StoredTime(t) == current_time[t]
\* lines 106, 136, 168: int(time.time() - last_fetch_time)
CacheAge(tnow, lft) == tnow - lft
\* except clause of line 78: which exceptions it catches.
Caught(e) == e = "RequestException"

Active(u) == pc[u] \notin {"idle", "done"}

\* ------------------------------------------------------------ the request
\* A handler is entered and calls fetch_from_github (lines 105, 134, 162),
\* which samples the clock (line 56).  fetch_from_github does not depend on
\* the route, see handler_answer.  The threads are interchangeable: a
\* request goes to the first free one.
fetch_L56(t) ==
  /\ pc[t] = "idle"
  /\ \A u \in Threads : u < t => pc[u] # "idle"
  /\ calls < MaxCalls
  /\ pc' = [pc EXCEPT ![t] = "L59"]
  /\ current_time' = [current_time EXCEPT ![t] = now]
  /\ calls' = calls + 1
  /\ callno' = [callno EXCEPT ![t] = calls + 1]
  /\ solo' = [u \in Threads |->
               IF u = t THEN \A v \in Threads \ {t} : ~Active(v)
               ELSE IF Active(u) THEN FALSE ELSE solo[u]]
  /\ pre' = [u \in Threads |->
              IF u = t THEN (IF \A v \in Threads \ {t} : ~Active(v)
                             THEN Snapshot ELSE NoSnapshot)
              ELSE IF Active(u) THEN NoSnapshot ELSE pre[u]]
  /\ path' = [path EXCEPT ![t] = ""]
  /\ gets' = [gets EXCEPT ![t] = 0]
  /\ waited' = [waited EXCEPT ![t] = 0]
  /\ found' = [found EXCEPT ![t] = None]
  /\ UNCHANGED <<encoder, now, ticks, globals, data, tmp, ret, exc, resp,
                 lft_by, data_by>>

\* Statements of a refresh: from the decision to fetch to the second store.
Refreshing == {"L66", "L66s", "wait", "L72", "L73"}

\* Faulty variant of the step below: a single-flight guard, the freshness
\* check waits while another caller is refreshing.
fetch_L59_single_flight(t) ==
  /\ pc[t] = "L59"
  /\ \A u \in Threads \ {t} : pc[u] \notin Refreshing
  /\ IF CacheUsable(cached_data) /\ IsFresh(current_time[t], last_fetch_time)
       THEN /\ pc' = [pc EXCEPT ![t] = "L60"]
            /\ path' = [path EXCEPT ![t] = "hit"]
            /\ found' = [found EXCEPT ![t] = cached_data]
       ELSE /\ pc' = [pc EXCEPT ![t] = "L66"]
            /\ path' = [path EXCEPT ![t] = "miss"]
            /\ found' = found
  /\ UNCHANGED <<encoder, now, ticks, globals, locals, calls, callno, solo,
                 gets, pre, waited, lft_by, data_by>>

\* line 59: `cached_data and (current_time - last_fetch_time) < CACHE_DURATION`
fetch_L59(t) ==
  /\ pc[t] = "L59"
  /\ IF CacheUsable(cached_data) /\ IsFresh(current_time[t], last_fetch_time)
       THEN /\ pc' = [pc EXCEPT ![t] = "L60"]
            /\ path' = [path EXCEPT ![t] = "hit"]
            /\ found' = [found EXCEPT ![t] = cached_data]
       ELSE /\ pc' = [pc EXCEPT ![t] = "L66"]
            /\ path' = [path EXCEPT ![t] = "miss"]
            /\ found' = found
  /\ UNCHANGED <<encoder, now, ticks, globals, locals, calls, callno, solo,
                 gets, pre, waited, lft_by, data_by>>

\* line 60, `cache_hits += 1`: load ...
fetch_L60_load(t) ==
  /\ pc[t] = "L60"
  /\ tmp' = [tmp EXCEPT ![t] = cache_hits]
  /\ pc' = [pc EXCEPT ![t] = "L60s"]
  /\ UNCHANGED <<encoder, now, ticks, globals, current_time, data, ret, exc,
                 resp, ghosts>>

\* ... add and store.
fetch_L60_store(t) ==
  /\ pc[t] = "L60s"
  /\ cache_hits' = tmp[t] + 1
  /\ pc' = [pc EXCEPT ![t] = "L63"]
  /\ UNCHANGED <<encoder, now, ticks, last_fetch_time, cached_data,
                 cache_misses, locals, ghosts>>

\* line 63: return cached_data (the global, read again).
fetch_L63(t) ==
  /\ pc[t] = "L63"
  /\ ret' = [ret EXCEPT ![t] = cached_data]
  /\ pc' = [pc EXCEPT ![t] = "H"]
  /\ UNCHANGED <<encoder, now, ticks, globals, current_time, data, tmp, exc,
                 resp, ghosts>>

\* line 66, `cache_misses += 1`: load ...
fetch_L66_load(t) ==
  /\ pc[t] = "L66"
  /\ tmp' = [tmp EXCEPT ![t] = cache_misses]
  /\ pc' = [pc EXCEPT ![t] = "L66s"]
  /\ UNCHANGED <<encoder, now, ticks, globals, current_time, data, ret, exc,
                 resp, ghosts>>

\* Faulty variant of the step below: the miss path bumps the hit counter.
fetch_L66_store_hits(t) ==
  /\ pc[t] = "L66s"
  /\ cache_hits' = cache_hits + 1
  /\ gets' = [gets EXCEPT ![t] = gets[t] + 1]
  /\ pc' = [pc EXCEPT ![t] = "wait"]
  /\ UNCHANGED <<encoder, now, ticks, last_fetch_time, cached_data,
                 cache_misses, locals, calls, callno, solo, path, pre, waited,
                 found, lft_by, data_by>>

\* ... add and store; then line 68: requests.get is sent and the thread
\* blocks until the answer.
fetch_L66_store(t) ==
  /\ pc[t] = "L66s"
  /\ cache_misses' = tmp[t] + 1
  /\ gets' = [gets EXCEPT ![t] = gets[t] + 1]
  /\ pc' = [pc EXCEPT ![t] = "wait"]
  /\ UNCHANGED <<encoder, now, ticks, last_fetch_time, cached_data,
                 cache_hits, locals, calls, callno, solo, path, pre, waited,
                 found, lft_by, data_by>>

\* lines 68-69: the GET raises (connection error, timeout) or
\* raise_for_status raises on a non-2xx answer: a RequestException.
fetch_L68_error(t) ==
  /\ pc[t] = "wait"
  /\ exc' = [exc EXCEPT ![t] = "RequestException"]
  /\ path' = [path EXCEPT ![t] = "failed"]
  /\ pc' = [pc EXCEPT ![t] = "L78"]
  /\ UNCHANGED <<encoder, now, ticks, globals, current_time, data, tmp, ret,
                 resp, calls, callno, solo, gets, pre, waited, found, lft_by,
                 data_by>>

\* line 71: a 2xx answer whose body is not JSON; response.json() raises.
fetch_L71_badjson(t) ==
  /\ pc[t] = "wait"
  /\ \E e \in BadJsonRaises : exc' = [exc EXCEPT ![t] = e]
  /\ path' = [path EXCEPT ![t] = "failed"]
  /\ pc' = [pc EXCEPT ![t] = "L78"]
  /\ UNCHANGED <<encoder, now, ticks, globals, current_time, data, tmp, ret,
                 resp, calls, callno, solo, gets, pre, waited, found, lft_by,
                 data_by>>

\* line 71: a 2xx answer whose body parses; data = response.json().
fetch_L71_json(t) ==
  /\ pc[t] = "wait"
  /\ \E d \in JsonValues :
       data' = [data EXCEPT ![t] = d]
  /\ path' = [path EXCEPT ![t] = "parsed"]
  /\ pc' = [pc EXCEPT ![t] = "L72"]
  /\ UNCHANGED <<encoder, now, ticks, globals, current_time, tmp, ret, exc,
                 resp, calls, callno, solo, gets, pre, waited, found, lft_by,
                 data_by>>

\* line 72: last_fetch_time = current_time
fetch_L72(t) ==
  /\ pc[t] = "L72"
  /\ last_fetch_time' = StoredTime(t)
  /\ lft_by' = callno[t]
  /\ pc' = [pc EXCEPT ![t] = "L73"]
  /\ UNCHANGED <<encoder, now, ticks, cached_data, cache_hits, cache_misses,
                 locals, calls, callno, solo, path, gets, pre, waited, found,
                 data_by>>

\* line 73: cached_data = data; then lines 75-76: data.get(...) for the log
\* line and return data.  On a value without .get (None, a list) the log
\* line raises AttributeError, which line 78 does not catch.
fetch_L73(t) ==
  /\ pc[t] = "L73"
  /\ cached_data' = data[t]
  /\ data_by' = callno[t]
  /\ IF HasGet(data[t])
       THEN /\ ret' = [ret EXCEPT ![t] = data[t]]
            /\ exc' = exc
       ELSE /\ exc' = [exc EXCEPT ![t] = "AttributeError"]
            /\ ret' = ret
  /\ pc' = [pc EXCEPT ![t] = "H"]
  /\ UNCHANGED <<encoder, now, ticks, last_fetch_time, cache_hits, cache_misses,
                 current_time, data, tmp, resp,
                 calls, callno, solo, path, gets, pre, waited, found, lft_by>>

\* Faulty variant of the step below: with nothing to fall back on, the
\* except clause tries the upstream again instead of re-raising.
fetch_L78_retry(t) ==
  /\ pc[t] = "L78"
  /\ IF Caught(exc[t]) /\ CacheUsable(cached_data)
       THEN pc' = [pc EXCEPT ![t] = "L84"]
       ELSE IF Caught(exc[t]) THEN pc' = [pc EXCEPT ![t] = "L66"]
       ELSE pc' = [pc EXCEPT ![t] = "H"]
  /\ UNCHANGED <<encoder, now, ticks, globals, locals, ghosts>>

\* lines 78-81: the except clause; an exception it does not catch leaves
\* fetch_from_github.  Caught: `if cached_data` reads the global.
fetch_L78(t) ==
  /\ pc[t] = "L78"
  /\ IF Caught(exc[t]) /\ CacheUsable(cached_data)
       THEN pc' = [pc EXCEPT ![t] = "L84"]
       ELSE pc' = [pc EXCEPT ![t] = "H"]
  /\ UNCHANGED <<encoder, now, ticks, globals, locals, ghosts>>

\* line 84: return cached_data (the global, read again); line 85 otherwise.
fetch_L84(t) ==
  /\ pc[t] = "L84"
  /\ ret' = [ret EXCEPT ![t] = cached_data]
  /\ exc' = [exc EXCEPT ![t] = ""]
  /\ path' = [path EXCEPT ![t] = "stale"]
  /\ pc' = [pc EXCEPT ![t] = "H"]
  /\ UNCHANGED <<encoder, now, ticks, globals, current_time, data, tmp, resp,
                 calls, callno, solo, gets, pre, waited, found, lft_by, data_by>>

\* ------------------------------------------------------------ the handlers
Ok200(d, age) ==
  [status |-> 200, ok |-> TRUE, age |-> age, payload |-> d, error |-> ""]
Err503(msg) ==
  [status |-> 503, ok |-> FALSE, age |-> 0, payload |-> None, error |-> msg]

\* lines 106-128: the answer of /health once fetch_from_github returned d or
\* raised e.  data.get on a value without .get raises inside the try and
\* ends in the except clause, like an exception of fetch_from_github; the
\* body carries str(e).
health_check(e, d, tnow, lft) ==
  IF e # "" THEN Err503(e)
  ELSE IF ~HasGet(d) THEN Err503("AttributeError")
  ELSE Ok200(d, IF lft # 0 THEN CacheAge(tnow, lft) ELSE 0)

\* Faulty variant of get_matches: its except clause is as narrow as the one
\* of line 78, so that any other exception leaves the handler and the
\* server answers 500 with an HTML page.
get_matches_narrow(e, d, tnow, lft) ==
  IF e = "" /\ HasGet(d) THEN Ok200(d, CacheAge(tnow, lft))
  ELSE IF Caught(e) THEN Err503("Failed to fetch matches data")
  ELSE [status |-> 500, ok |-> FALSE, age |-> 0, payload |-> None,
        error |-> "Internal Server Error"]

\* lines 136-156: the answer of /matches.
get_matches(e, d, tnow, lft) ==
  IF e # "" \/ ~HasGet(d) THEN Err503("Failed to fetch matches data")
  ELSE Ok200(d, CacheAge(tnow, lft))

\* lines 165-190: the answer of /encoded.
get_encoded_matches(e, d, tnow, lft) ==
  IF e # "" \/ ~HasGet(d) THEN Err503("Failed to encode matches data")
  ELSE Ok200(d, CacheAge(tnow, lft))

\* The rest of a handler after fetch_from_github returned or raised: it
\* reads the clock and last_fetch_time and builds the answer.  The route of
\* a request influences nothing but this answer, so resp[t][r] is the answer
\* of the request if it was for route r.
handler_answer(t) ==
  /\ pc[t] = "H"
  /\ resp' = [resp EXCEPT ![t] =
       [r \in Routes |->
          CASE r = "health" -> health_check(exc[t], ret[t], now, last_fetch_time)
            [] r = "matches" -> get_matches(exc[t], ret[t], now, last_fetch_time)
            [] r = "encoded" ->
                 get_encoded_matches(exc[t], ret[t], now, last_fetch_time)]]
  /\ pc' = [pc EXCEPT ![t] = "done"]
  /\ UNCHANGED <<encoder, now, ticks, globals, current_time, data, tmp, ret,
                 exc, ghosts>>

\* The response is sent and the thread is free for the next request.
handler_return(t) ==
  /\ pc[t] = "done"
  /\ pc' = [pc EXCEPT ![t] = "idle"]
  /\ current_time' = [current_time EXCEPT ![t] = 0]
  /\ data' = [data EXCEPT ![t] = None]
  /\ tmp' = [tmp EXCEPT ![t] = 0]
  /\ ret' = [ret EXCEPT ![t] = None]
  /\ exc' = [exc EXCEPT ![t] = ""]
  /\ resp' = [resp EXCEPT ![t] = NoResp]
  /\ callno' = [callno EXCEPT ![t] = 0]
  /\ solo' = [solo EXCEPT ![t] = FALSE]
  /\ path' = [path EXCEPT ![t] = ""]
  /\ gets' = [gets EXCEPT ![t] = 0]
  /\ pre' = [pre EXCEPT ![t] = NoSnapshot]
  /\ waited' = [waited EXCEPT ![t] = 0]
  /\ found' = [found EXCEPT ![t] = None]
  /\ UNCHANGED <<encoder, now, ticks, globals, calls, lft_by, data_by>>

Next ==
  \/ Tick
  \/ \E t \in Threads :
       \/ fetch_L56(t)
       \/ fetch_L59(t)
       \/ fetch_L60_load(t)
       \/ fetch_L60_store(t)
       \/ fetch_L63(t)
       \/ fetch_L66_load(t)
       \/ fetch_L66_store(t)
       \/ fetch_L68_error(t)
       \/ fetch_L71_badjson(t)
       \/ fetch_L71_json(t)
       \/ fetch_L72(t)
       \/ fetch_L73(t)
       \/ fetch_L78(t)
       \/ fetch_L84(t)
       \/ handler_answer(t)
       \/ handler_return(t)

Spec == Init /\ [][Next]_vars

\* The steps of a caller on the hit path (lines 60-63).  The interpreter
\* schedules every runnable thread, and none of these steps waits for
\* anything: each is taken if it stays enabled.  Nothing is assumed about
\* the upstream, whose answer may never come within a run.
ReaderStep(t) == fetch_L60_load(t) \/ fetch_L60_store(t) \/ fetch_L63(t)

FairSpec == Spec /\ \A t \in Threads : WF_vars(ReaderStep(t))

\* ----------------------------------------------------------- custom_encode
\* Faulty variants of the steps of custom_encode below.
FlushValue_unshifted(bit_buffer, bit_count) == bit_buffer % 32
HasGroup_strict(bit_count) == bit_count > 5
GroupValue_4bits(bit_buffer, bit_count) == (bit_buffer \div 2^bit_count) % 16

\* line 29; charset[value] of the code is charset[value + 1] here.
charset ==
  << "A", "B", "C", "D", "E", "F", "G", "H", "I", "J", "K", "L", "M", "N", "O",
     "P", "Q", "R", "S", "T", "U", "V", "W", "X", "Y", "Z", "a", "b", "c", "d",
     "e", "f" >>

\* line 30, input_string.encode('utf-8'): one to four bytes per code point.
\* (On a surrogate, 55296..57343, encode raises; the arguments drawn below
\* contain none.)
encode_utf8_char(c) ==
  IF c < 128 THEN << c >>
  ELSE IF c < 2048 THEN << 192 + (c \div 64), 128 + (c % 64) >>
  ELSE IF c < 65536
    THEN << 224 + (c \div 4096), 128 + ((c \div 64) % 64), 128 + (c % 64) >>
  ELSE << 240 + (c \div 262144), 128 + ((c \div 4096) % 64),
          128 + ((c \div 64) % 64), 128 + (c % 64) >>

RECURSIVE encode_utf8(_)
encode_utf8(str) ==
  IF str = << >> THEN << >>
  ELSE encode_utf8_char(Head(str)) \o encode_utf8(Tail(str))

\* line 38: while bit_count >= 5
HasGroup(bit_count) == bit_count >= 5
\* line 40: (bit_buffer >> bit_count) & 0x1F
GroupValue(bit_buffer, bit_count) == (bit_buffer \div 2^bit_count) % 32
\* line 42: bit_buffer & ((1 << bit_count) - 1)
KeepLow(bit_buffer, bit_count) == bit_buffer % 2^bit_count
\* lines 45-46: (bit_buffer << (5 - bit_count)) & 0x1F
FlushValue(bit_buffer, bit_count) == (bit_buffer * 2^(5 - bit_count)) % 32

\* lines 38-42: the inner loop, on the locals of custom_encode.
RECURSIVE while_L38(_, _, _)
while_L38(bit_buffer, bit_count, out) ==
  IF HasGroup(bit_count)
    THEN while_L38(KeepLow(bit_buffer, bit_count - 5), bit_count - 5,
                   Append(out, charset[GroupValue(bit_buffer, bit_count - 5) + 1]))
    ELSE [bit_buffer |-> bit_buffer, bit_count |-> bit_count, output |-> out]

\* lines 35-42: the loop over the bytes.  (bit_buffer << 8) | byte is a sum,
\* the low eight bits of the shifted buffer being zero; Python integers do
\* not overflow.
RECURSIVE for_L35(_, _, _, _)
for_L35(input_bytes, bit_buffer, bit_count, out) ==
  IF input_bytes = << >>
    THEN [bit_buffer |-> bit_buffer, bit_count |-> bit_count, output |-> out]
    ELSE LET st == while_L38(bit_buffer * 256 + Head(input_bytes),
                             bit_count + 8, out)
         IN  for_L35(Tail(input_bytes), st.bit_buffer, st.bit_count, st.output)

\* lines 44-48: the bits left over, padded, and one '='.
if_L44(st) ==
  IF st.bit_count > 0
    THEN st.output \o << charset[FlushValue(st.bit_buffer, st.bit_count) + 1],
                         "=" >>
    ELSE st.output

\* lines 28-50; the result is the sequence of the characters of the string.
custom_encode(str) == if_L44(for_L35(encode_utf8(str), 0, 0, << >>))

\* Arguments of custom_encode.  One character: every code point of one or
\* two bytes, and code points for every lead byte of three and four bytes.
OneChar ==
  (0 .. 2047) \cup {2048, 65535, 65536, 1114111}
    \cup {k * 4096 : k \in 1 .. 15} \cup {k * 262144 : k \in 1 .. 4}
\* Longer texts: NUL, 'f', e-acute (two bytes) and the euro sign (three).
SampleChars == {0, 102, 233, 8364}
RECURSIVE Texts(_)
Texts(n) ==
  IF n = 0 THEN {<< >>}
  ELSE LET shorter == Texts(n - 1)
       IN  shorter \cup {Append(w, c) : w \in shorter, c \in SampleChars}
Inputs == {<< c >> : c \in OneChar} \cup Texts(MaxChars)

cache == <<now, ticks, globals, pc, locals, ghosts>>

EncInit ==
  /\ CacheInit
  /\ input_string \in Inputs
  /\ output = << >>
  /\ enc_pc = "call"

\* A call of custom_encode (line 166) and its return.
custom_encode_call ==
  /\ enc_pc = "call"
  /\ output' = custom_encode(input_string)
  /\ enc_pc' = "return"
  /\ UNCHANGED <<input_string, cache>>

EncNext == custom_encode_call

EncSpec == EncInit /\ [][EncNext]_vars


\* ====================================================== properties
\* fetch_from_github of thread t has returned or raised and the handler has
\* not answered yet.
Returned(t) == pc[t] = "H"
\* The upstream fetch of t's request failed: an exception left lines 68-71.
FetchFailed(t) == path[t] \in {"failed", "stale"}
\* Routes whose handlers the claims name together.
DataRoutes == {"matches", "encoded"}

\* C1: a call made with no other call in progress, less than 600 s after a
\* fetch that stored a document (whatever that document is), takes the hit
\* path: cache_hits grows by exactly 1, cached_data, last_fetch_time and
\* cache_misses keep their values, no GET is issued and the cached payload
\* is returned.
C1_CacheHit ==
  \A t \in Threads :
    (/\ Returned(t)
     /\ solo[t]
     /\ pre[t].data # None
     /\ pre[t].lft # 0
     /\ current_time[t] - pre[t].lft < CACHE_DURATION)
    => (/\ path[t] = "hit"
        /\ cache_hits = pre[t].hits + 1
        /\ cache_misses = pre[t].misses
        /\ cached_data = pre[t].data
        /\ last_fetch_time = pre[t].lft
        /\ gets[t] = 0
        /\ exc[t] = ""
        /\ ret[t] = pre[t].data)

\* The same statement for documents that are true in Python; the code
\* satisfies this one.
C1_CacheHitTruthy ==
  \A t \in Threads :
    (/\ Returned(t)
     /\ solo[t]
     /\ Truthy(pre[t].data)
     /\ pre[t].lft # 0
     /\ current_time[t] - pre[t].lft < CACHE_DURATION)
    => (/\ path[t] = "hit"
        /\ cache_hits = pre[t].hits + 1
        /\ cache_misses = pre[t].misses
        /\ cached_data = pre[t].data
        /\ last_fetch_time = pre[t].lft
        /\ gets[t] = 0
        /\ exc[t] = ""
        /\ ret[t] = pre[t].data)

\* The upstream answer of t's request was a failure in the sense of the
\* specification: an exception, or a 2xx body that is not a match document.
UpstreamFailure(t) ==
  \/ FetchFailed(t)
  \/ path[t] = "parsed" /\ ~data[t].shaped

\* C2: a call whose upstream fetch fails (network error, timeout, non-2xx,
\* malformed body) while a previously fetched payload exists returns that
\* payload without error and leaves cached_data and last_fetch_time as they
\* were.  Stated for a call that no other call overlaps.
C2_StaleFallback ==
  \A t \in Threads :
    (/\ Returned(t)
     /\ solo[t]
     /\ UpstreamFailure(t)
     /\ pre[t].data # None)
    => (/\ exc[t] = ""
        /\ ret[t] = pre[t].data
        /\ cached_data = pre[t].data
        /\ last_fetch_time = pre[t].lft)

\* C3: a call whose upstream fetch fails while no payload has ever been
\* stored raises; /matches and /encoded answer 503 with success false;
\* cached_data is still absent and last_fetch_time still unset.  Holds for
\* every interleaving.
C3_TerminalFailure ==
  \A t \in Threads :
    (/\ pc[t] \in {"H", "done"}
     /\ FetchFailed(t)
     /\ data_by = 0
     /\ lft_by = 0)
    => (/\ exc[t] # ""
        /\ path[t] = "failed"
        /\ cached_data = None
        /\ last_fetch_time = 0
        /\ pc[t] = "done" =>
             \A r \in DataRoutes : resp[t][r].status = 503 /\ ~resp[t][r].ok)

\* C3 witness: a request that failed on an empty cache was answered 503.
C3_Witness ==
  \E t \in Threads :
    /\ pc[t] = "done"
    /\ FetchFailed(t)
    /\ data_by = 0
    /\ lft_by = 0
    /\ resp[t]["matches"].status = 503

\* t's request went through the stale-fallback path (line 84) and route r
\* answered 200.
StaleServed(t, r) ==
  pc[t] = "done" /\ path[t] = "stale" /\ resp[t][r].status = 200

FreshServed(t, r) ==
  pc[t] = "done" /\ path[t] = "parsed" /\ resp[t][r].status = 200

\* C5 as claimed: a call whose fetch succeeded returns the new payload and
\* reports age 0, however long the GET took.  Stated for the calls that no
\* other call overlaps and in which time passed during the GET only.
C5_FreshAgeZero ==
  \A t \in Threads : \A r \in DataRoutes :
    (FreshServed(t, r) /\ solo[t] /\ resp[t][r].age = waited[t]) =>
      (resp[t][r].payload = data[t] /\ resp[t][r].age = 0)

\* C5 as the code has it, on the step in which the handler answers after a
\* fetch that parsed: the age reported is the time elapsed since
\* last_fetch_time; if no other call overlapped, last_fetch_time is the
\* current_time the call sampled at line 56, before the GET, so that the age
\* is at least the time the GET took; cached_data is the fetched document,
\* and that document is returned if it is an object (AttributeError is
\* raised otherwise).
C5_FreshAnswer(t) ==
  (pc[t] = "H" /\ pc'[t] = "done" /\ path[t] = "parsed") =>
    /\ \A r \in DataRoutes :
         resp'[t][r].status = 200 =>
           /\ resp'[t][r].age = now - last_fetch_time
           /\ resp'[t][r].payload = data[t]
    /\ solo[t] =>
         /\ last_fetch_time = current_time[t]
         /\ cached_data = data[t]
         /\ IF HasGet(data[t])
              THEN /\ exc[t] = "" /\ ret[t] = data[t]
                   /\ \A r \in DataRoutes :
                        /\ resp'[t][r].status = 200
                        /\ resp'[t][r].age = now - current_time[t]
                        /\ resp'[t][r].age >= waited[t]
              ELSE /\ exc[t] = "AttributeError"
                   /\ \A r \in DataRoutes : resp'[t][r].status = 503

\* C5 (amended): every step in which a handler answers after a successful
\* fetch satisfies C5_FreshAnswer.
C5_FreshRefresh == [][\A t \in Threads : C5_FreshAnswer(t)]_vars

\* C5 witness: a refresh during which a second passed is answered with
\* age 1, not 0.
C5_Witness ==
  \E t \in Threads :
    /\ FreshServed(t, "matches")
    /\ solo[t]
    /\ resp[t]["matches"].age = 1
    /\ resp[t]["matches"].payload \in MatchDocs
    /\ last_fetch_time = current_time[t]
    /\ waited[t] = 1

\* C6: once a payload has been stored, cached_data is never absent again.
C6_PayloadNeverCleared == [][cached_data # None => cached_data' # None]_vars

\* C7: a 2xx answer whose body is not a match document is treated as a
\* fetch failure: the call leaves cached_data and last_fetch_time alone and
\* returns the prior payload, or raises when there is none.  Stated for a
\* call that no other call overlaps.
C7_ShapeCheck ==
  \A t \in Threads :
    (Returned(t) /\ solo[t] /\ path[t] = "parsed" /\ ~data[t].shaped)
    => (/\ cached_data = pre[t].data
        /\ last_fetch_time = pre[t].lft
        /\ IF pre[t].data # None
             THEN exc[t] = "" /\ ret[t] = pre[t].data
             ELSE exc[t] # "")

\* Statements at which a thread reads the shared pair.
ReadPoints == {"L59", "L63", "L78", "L84", "H"}

\* C8: whenever some caller is about to read the shared state,
\* last_fetch_time and cached_data were written by one and the same fetch.
C8_PairConsistent ==
  (\E u \in Threads : pc[u] \in ReadPoints) => lft_by = data_by

\* C9: the counters never decrease from one state to the next.
C9_CountersMonotone ==
  [][cache_hits' >= cache_hits /\ cache_misses' >= cache_misses]_vars

C11_HealthStatus ==
  \A t \in Threads :
    (pc[t] = "done" /\ solo[t]) =>
      /\ resp[t]["health"].status \in {200, 503}
      /\ resp[t]["health"].status = 503 =>
           (pre[t].data = None /\ UpstreamFailure(t))
      /\ (pre[t].data = None /\ FetchFailed(t)) =>
           resp[t]["health"].status = 503

\* The same statement for requests that began with no payload or a match
\* document, whose fetch did not return a body of another shape and did not
\* raise an exception that line 78 lets through; the code satisfies it.
C11_HealthStatusMatchDocs ==
  \A t \in Threads :
    (/\ pc[t] = "done"
     /\ solo[t]
     /\ pre[t].data \in MatchDocs \cup {None}
     /\ path[t] = "parsed" => data[t].shaped
     /\ exc[t] # "ValueError") =>
      resp[t]["health"].status =
        IF pre[t].data = None /\ FetchFailed(t) THEN 503 ELSE 200

\* The fixed messages of lines 154 and 188.
GenericMessages ==
  {"Failed to fetch matches data", "Failed to encode matches data"}

\* C12: whenever fetch_from_github raised, the body of the answer of every
\* endpoint carries a generic message and never str(e), the text of the
\* exception (which the model represents by the class of e).
C12_NoErrorDetailLeak ==
  \A t \in Threads : \A r \in Routes :
    (pc[t] = "done" /\ exc[t] # "") =>
      (resp[t][r].error # exc[t] /\ resp[t][r].error \in GenericMessages)

\* The same statement for /matches and /encoded alone; the code satisfies
\* it.
C12_DataRoutesGeneric ==
  \A t \in Threads : \A r \in DataRoutes :
    (pc[t] = "done" /\ exc[t] # "") =>
      (resp[t][r].error # exc[t] /\ resp[t][r].error \in GenericMessages)

\* C13: every request to /health, /matches or /encoded is answered with an
\* envelope built by the handler, whatever the cache state and the upstream
\* outcome: status 200 with the success flag set and the document that
\* fetch_from_github returned, or status 503 with the flag cleared; the
\* status is in {200, 401, 503}; an exception of fetch_from_github or of
\* data.get on a document of unexpected shape ends in the 503 envelope and
\* never leaves the handler.
C13_ResponseEnvelope ==
  \A t \in Threads : \A r \in Routes :
    pc[t] = "done" =>
      /\ resp[t][r].status \in {200, 401, 503}
      /\ resp[t][r].ok = (resp[t][r].status = 200)
      /\ IF exc[t] = "" /\ HasGet(ret[t])
           THEN resp[t][r].status = 200 /\ resp[t][r].payload = ret[t]
           ELSE resp[t][r].status = 503

\* C13 witness: a document of unexpected shape was fetched and stored, line
\* 75 raised AttributeError, and all three endpoints answer the 503
\* envelope.
C13_Witness ==
  \E t \in Threads :
    /\ pc[t] = "done"
    /\ path[t] = "parsed"
    /\ ~HasGet(data[t])
    /\ exc[t] = "AttributeError"
    /\ \A r \in Routes : resp[t][r].status = 503 /\ ~resp[t][r].ok

\* Statements between the sending of the GET and the return of
\* fetch_from_github on the miss path.
AfterGet == {"wait", "L72", "L73", "L78", "L84"}

\* C17: one call of fetch_from_github issues at most one upstream GET: none
\* on the hit path, exactly one on the miss path whatever its outcome.  Once
\* its fetch has failed the call is past line 78 and never back at the GET;
\* a failure that found nothing to fall back on ends the call with the
\* exception, and the request with a 503.  Holds for every interleaving.
C17_NoRetries ==
  \A t \in Threads :
    /\ gets[t] \in {0, 1}
    /\ pc[t] \in {"L59", "L60", "L60s", "L63", "L66", "L66s"} => gets[t] = 0
    /\ pc[t] \in AfterGet => gets[t] = 1
    /\ pc[t] \in {"H", "done"} => gets[t] = (IF path[t] = "hit" THEN 0 ELSE 1)
    /\ FetchFailed(t) => pc[t] \in {"L78", "L84", "H", "done"}
    /\ (pc[t] \in {"H", "done"} /\ path[t] = "failed") => exc[t] # ""
    /\ (pc[t] = "done" /\ path[t] = "failed") =>
         \A r \in Routes : resp[t][r].status = 503

\* C17 witness: a request whose only GET failed, with nothing cached, was
\* answered 503 after that one GET.
C17_Witness ==
  \E t \in Threads :
    /\ pc[t] = "done"
    /\ path[t] = "failed"
    /\ exc[t] = "RequestException"
    /\ cached_data = None
    /\ gets[t] = 1
    /\ resp[t]["matches"].status = 503

\* C18: nothing de-duplicates refreshes.  A caller at the freshness check
\* is never held back, whatever the other callers are doing (one of them may
\* be refreshing), and neither is a caller on the miss path before its GET;
\* every caller with a GET in flight has taken the miss path and executed
\* `cache_misses += 1`.  Hence two callers can have a GET in flight at the
\* same time (C18_Witness).
C18_NoRefreshDedup ==
  \A t \in Threads :
    /\ pc[t] = "L59" => ENABLED fetch_L59(t)
    /\ pc[t] = "L66" => ENABLED fetch_L66_load(t)
    /\ pc[t] = "L66s" => ENABLED fetch_L66_store(t)
    /\ pc[t] = "wait" =>
         (path[t] = "miss" /\ gets[t] = 1 /\ cache_misses >= 1)

\* C18 witness: two callers have both missed, both have incremented
\* cache_misses (0 to 1 to 2) and both have a GET in flight.
C18_Witness ==
  \E t, u \in Threads :
    /\ t # u
    /\ pc[t] = "wait" /\ pc[u] = "wait"
    /\ path[t] = "miss" /\ path[u] = "miss"
    /\ gets[t] = 1 /\ gets[u] = 1
    /\ cache_misses = 2

\* Statements of the hit path.
HitPath == {"L60", "L60s", "L63"}

\* C19 as claimed, its safety part: a caller whose freshness check found a
\* usable payload younger than 600 s returns that payload, also while other
\* callers have a fetch in flight.
C19_ReaderReturnsFound ==
  \A t \in Threads :
    (Returned(t) /\ path[t] = "hit") => (exc[t] = "" /\ ret[t] = found[t])

\* The part of C19 that the code satisfies.  A caller on the hit path never
\* waits: each of its steps is enabled whatever the other callers are doing;
\* what it returns is the value cached_data has when line 63 executes, which
\* is the payload it found if no other call overlaps it.
C19_ReadersNeverWait ==
  /\ [](\A t \in Threads :
         /\ pc[t] \in HitPath => (path[t] = "hit" /\ ENABLED ReaderStep(t))
         /\ (Returned(t) /\ path[t] = "hit" /\ solo[t]) => ret[t] = found[t])
  /\ [][\A t \in Threads :
         (pc[t] = "L63" /\ pc'[t] = "H") => ret'[t] = cached_data]_vars

\* ... and under fair scheduling of its own steps it always eventually
\* returns from fetch_from_github, also while another caller's GET never
\* completes.
C19_ReadersEventuallyReturn ==
  \A t \in Threads :
    (pc[t] \in HitPath) ~> (Returned(t) /\ path[t] = "hit")

\* C20: last_fetch_time never decreases from one state to the next, so that
\* a refresh that began earlier and completes later does not put its older
\* timestamp over the one stored by a refresh that began after it.
C20_TimestampMonotone == [][last_fetch_time' >= last_fetch_time]_vars

\* The same for the payload: a refresh never replaces the payload stored by
\* a refresh that began after it (requests are numbered in the order in
\* which they sampled the clock at line 56).
C20_PayloadNotOverwrittenByOlder == [][data_by' >= data_by]_vars

\* ---------------------------------------------- properties of custom_encode
\* The reference encoding of the specification, on bit sequences.  The eight
\* bits of a byte, most significant first.
BitsOfByte(b) == [i \in 1 .. 8 |-> (b \div 2^(8 - i)) % 2]
RECURSIVE BitStream(_)
BitStream(bytes) ==
  IF bytes = << >> THEN << >>
  ELSE BitsOfByte(Head(bytes)) \o BitStream(Tail(bytes))
\* The value of a group of five bits.
FiveBitValue(g) == 16 * g[1] + 8 * g[2] + 4 * g[3] + 2 * g[4] + g[5]
\* Successive five-bit groups to symbols; a last, shorter group is filled
\* with zeros on the right and followed by one '='.
Reference(bytes) ==
  LET bits == BitStream(bytes)
      full == Len(bits) \div 5
      left == Len(bits) % 5
      padded == bits \o [i \in 1 .. (5 - left) |-> 0]
      symbol(k) == charset[FiveBitValue(SubSeq(padded, 5 * k - 4, 5 * k)) + 1]
  IN  IF left = 0 THEN [k \in 1 .. full |-> symbol(k)]
      ELSE [k \in 1 .. full + 1 |-> symbol(k)] \o << "=" >>

\* The arguments of custom_encode in the state, as bytes.
InputBytes == encode_utf8(input_string)

\* C14: for every text, custom_encode returns the reference encoding of its
\* UTF-8 bytes: the bytes read as one bitstream, most significant bit first,
\* cut into five-bit groups, the leftover bits zero-filled and followed by
\* exactly one '='; the empty text gives the empty string and "f" gives
\* "MY=".
C14_EncoderEqualsReference ==
  enc_pc = "return" =>
    /\ output = Reference(InputBytes)
    /\ input_string = << >> => output = << >>
    /\ input_string = << 102 >> => output = << "M", "Y", "=" >>

\* C14 witness: "f" was encoded as "MY=".
C14_Witness ==
  /\ enc_pc = "return"
  /\ input_string = << 102 >>
  /\ InputBytes = << 102 >>
  /\ output = << "M", "Y", "=" >>

\* ceil(8n / 5)
SymbolCount(n) == (8 * n + 4) \div 5

\* C15: for an argument of n bytes the result has ceil(8n/5) symbols of the
\* alphabet, followed by one '=' if and only if 8n is not a multiple of 5
\* (that is, n is not a multiple of 5); '=' occurs nowhere else.
C15_EncoderLength ==
  enc_pc = "return" =>
    LET n == Len(InputBytes)
        padded == (8 * n) % 5 # 0
        symbols == {i \in 1 .. Len(output) : output[i] # "="}
    IN  /\ Cardinality(symbols) = SymbolCount(n)
        /\ Len(output) = SymbolCount(n) + (IF padded THEN 1 ELSE 0)
        /\ padded = (n % 5 # 0)
        /\ padded = (output # << >> /\ output[Len(output)] = "=")
        /\ \A i \in 1 .. Len(output) : output[i] = "=" => i = Len(output)
        /\ \A i \in symbols : \E v \in 1 .. 32 : output[i] = charset[v]

\* C15 witness: an argument of five bytes gives eight symbols and no '='.
C15_Witness ==
  /\ enc_pc = "return"
  /\ Len(InputBytes) = 5
  /\ Len(output) = 8
  /\ \A i \in 1 .. 8 : output[i] # "="

\* A decoder for the encoding: the symbols back to five-bit groups, and as
\* many whole bytes as the bits give.
ValueOfSymbol(ch) == (CHOOSE v \in 1 .. 32 : charset[v] = ch) - 1
BitsOfValue(v) == [i \in 1 .. 5 |-> (v \div 2^(5 - i)) % 2]
RECURSIVE SymbolBits(_)
SymbolBits(str) ==
  IF str = << >> \/ Head(str) = "=" THEN << >>
  ELSE BitsOfValue(ValueOfSymbol(Head(str))) \o SymbolBits(Tail(str))
ByteValue(g) ==
  128 * g[1] + 64 * g[2] + 32 * g[3] + 16 * g[4] + 8 * g[5] + 4 * g[6]
    + 2 * g[7] + g[8]
Decode(str) ==
  LET bits == SymbolBits(str)
  IN  [k \in 1 .. (Len(bits) \div 8) |-> ByteValue(SubSeq(bits, 8 * k - 7, 8 * k))]

\* Texts compared with the argument in the state: up to two characters of
\* one to four bytes each.
ProbeChars == {0, 102, 127, 233, 8364, 128512}
Probes ==
  {<< >>} \cup {<< c >> : c \in ProbeChars}
    \cup {<< c, d >> : c \in ProbeChars, d \in ProbeChars}

\* C16: custom_encode is a function of its argument alone and is injective
\* on byte sequences: encoding the argument again gives the same string, any
\* text with other bytes (of the same or another length) gives another
\* string, and the bytes are recovered from the string by a decoder.
C16_EncoderInjective ==
  enc_pc = "return" =>
    /\ custom_encode(input_string) = output
    /\ \A other \in Probes :
         encode_utf8(other) # InputBytes => custom_encode(other) # output
    /\ Decode(output) = InputBytes

\* C16 witness: "f" followed by NUL is encoded as "MYAA=", which begins with
\* the symbols of "MY=", the encoding of "f", and differs from it.
C16_Witness ==
  /\ enc_pc = "return"
  /\ input_string = << 102, 0 >>
  /\ output = << "M", "Y", "A", "A", "=" >>
  /\ custom_encode(<< 102 >>) = << "M", "Y", "=" >>

====
